---- MODULE Spec2Model ----
(***************************************************************************)
(* State-machine model of the request-resolution pipeline of               *)
(* src/addon.js: makeAddon, generateWithRetry, parseGeminiResponse,        *)
(* getTmdbItem and the catalog handler, together with the process-wide     *)
(* GLOBAL_USER_CACHES map and the wall clock read by Date.now().           *)
(*                                                                         *)
(* One action is one run-to-completion segment of the JavaScript event     *)
(* loop: the code between two awaits of one request runs atomically, and   *)
(* segments of different requests interleave freely.                       *)
(*                                                                         *)
(* Strings are sequences of tokens (words, a blank, the '.json' suffix);   *)
(* String.includes is decided token by token with KeywordsIn, which lists  *)
(* the keywords that occur inside each token.                              *)
(***************************************************************************)
EXTENDS Integers, Sequences, FiniteSets, TLC

----------------------------------------------------------------------------
(* Bounds of the model *)

\* request slots; each slot carries one catalog request
NumReq == 2
\* length of the prefix of MODEL_POOL that is modelled (the source lists 31)
NumModels == 2
\* number of clock advances in one behaviour
MaxTicks == 2
\* number of tokens of a search string
MaxQueryLen == 2

----------------------------------------------------------------------------
(* Program constants *)

CACHE_TTL == 10 * 60 * 1000

PAGE_SIZE == 20

MODEL_POOL == [i \in 1..NumModels |-> i]

movieKeywords == {"movie", "film", "cinema"}

seriesKeywords == {"series", "show", "tv", "season", "episode"}

----------------------------------------------------------------------------
(* Strings *)

\* the tokens query strings are built from
Tokens == {"movie", "Film", "tv", "Showtime", "sad", ".json"}

\* String.prototype.toLowerCase on one token
LowerTok(t) ==
    CASE t = "Film" -> "film"
      [] t = "Showtime" -> "showtime"
      [] OTHER -> t

toLowerCase(s) == [i \in 1..Len(s) |-> LowerTok(s[i])]

\* the keywords that occur as substrings of a token
KeywordsIn(t) ==
    CASE t = "movie" -> {"movie"}
      [] t = "film" -> {"film"}
      [] t = "tv" -> {"tv"}
      [] t = "showtime" -> {"show"}
      [] OTHER -> {}

\* s.includes(w) for a keyword w
includes(s, w) == \E i \in 1..Len(s) : w \in KeywordsIn(s[i])

\* s.includes('.json')
includesJson(s) == \E i \in 1..Len(s) : s[i] = ".json"

\* s.split('.json')[0]: what precedes the first '.json'
splitJsonFirst(s) ==
    LET first == CHOOSE i \in 1..Len(s) :
                     s[i] = ".json" /\ \A j \in 1..(i - 1) : s[j] # ".json"
    IN SubSeq(s, 1, first - 1)

\* lines 261-263
cleanQuery(search) ==
    IF includesJson(search) THEN splitJsonFirst(search) ELSE search

wantsMovies(query) == \E w \in movieKeywords : includes(query, w)

wantsSeries(query) == \E w \in seriesKeywords : includes(query, w)

\* line 280: `${type}:${query}`
cacheKey(type, query) == <<type, query>>

----------------------------------------------------------------------------
(* JSON values and provider text *)

\* an element of a parsed list: a title/year object, JSON null, or a
\* scalar.  Titles and years are numbered; 0 stands for an absent field
Obj(title, year) == [kind |-> "obj", title |-> title, year |-> year]

JsonNull == [kind |-> "null", title |-> 0, year |-> 0]

JsonScalar == [kind |-> "scalar", title |-> 0, year |-> 0]

\* provider text: optional ```json fences around a body that is a JSON
\* list (k = "list"), another JSON value (k = "object"), not JSON at all
\* (k = "malformed"), or nothing (k = "empty": the empty string)
Text(fenced, k, v) == [fenced |-> fenced, k |-> k, v |-> v]

\* !text (line 305): the empty string is falsy
IsFalsyText(text) == text.k = "empty" /\ ~text.fenced

\* lines 48-56: strip the fences and newlines, JSON.parse, [] on a throw
parseGeminiResponse(text) ==
    CASE text.k = "list" -> [k |-> "list", v |-> text.v]
      [] text.k = "object" -> [k |-> "object", v |-> <<>>]
      [] OTHER -> [k |-> "list", v |-> <<>>]

\* the length is not looked at
IsArray(parsed) == parsed.k = "list"

\* line 308: Array.isArray(suggestions) && suggestions.length > 0
IsNonEmptyArray(parsed) == parsed.k = "list" /\ Len(parsed.v) > 0

----------------------------------------------------------------------------
(* Pagination *)

NaN == [nan |-> TRUE, n |-> 0]

Num(n) == [nan |-> FALSE, n |-> n]

Max(a, b) == IF a > b THEN a ELSE b

Min(a, b) == IF a < b THEN a ELSE b

\* relative index of Array.prototype.slice: NaN is 0, negatives count
\* from the end, the result is clamped to [0, len]
RelIndex(x, len) ==
    IF x.nan THEN 0
    ELSE IF x.n < 0 THEN Max(len + x.n, 0) ELSE Min(x.n, len)

\* skip + PAGE_SIZE
AddNum(x, n) == IF x.nan THEN NaN ELSE Num(x.n + n)

\* list.slice(start, end), indices 0-based as in the source
slice(list, start, end) ==
    LET k == RelIndex(start, Len(list))
        f == RelIndex(end, Len(list))
    IN IF f > k THEN SubSeq(list, k + 1, f) ELSE <<>>

\* line 315: skip >= cachedList.length (false for NaN)
SkipBeyond(skip, list) == ~skip.nan /\ skip.n >= Len(list)

\* the page starts one candidate late
pageItemsFromNext(list, skip) ==
    slice(list, AddNum(skip, 1), AddNum(skip, PAGE_SIZE + 1))

\* line 317
pageItems(list, skip) == slice(list, skip, AddNum(skip, PAGE_SIZE))

----------------------------------------------------------------------------
(* Inputs *)

\* config as decoded by the router: tmdb "" stands for a missing or empty
\* credential, hasGemini = FALSE for a missing credential list
Config(tmdb, hasGemini, gemini) ==
    [tmdb |-> tmdb, hasGemini |-> hasGemini, gemini |-> gemini]

\* extra.skip: given = FALSE when absent (or otherwise falsy), else the
\* value parseInt makes of it
SkipIn(given, val) == [given |-> given, val |-> val]

\* the extra argument of a catalog request; present = FALSE when the
\* request has none, hasSearch = FALSE when extra.search is absent
Extra(present, hasSearch, search, skip) ==
    [present |-> present, hasSearch |-> hasSearch, search |-> search,
     skip |-> skip]

\* line 267: extra.skip ? parseInt(extra.skip) : 0
ParseSkip(skipIn) == IF skipIn.given THEN skipIn.val ELSE Num(0)

\* only the metadata credential is looked at
UnconfiguredNoTmdb(config) == config.tmdb = ""

\* line 68: !tmdbKey || !apiKeys || apiKeys.length === 0
Unconfigured(config) ==
    config.tmdb = "" \/ ~config.hasGemini \/ Len(config.gemini) = 0

\* an empty search string counts as a search term
NoSearchAbsentOnly(extra) == ~extra.present \/ ~extra.hasSearch

\* line 259: !extra || !extra.search
NoSearch(extra) ==
    ~extra.present \/ ~extra.hasSearch \/ Len(extra.search) = 0

----------------------------------------------------------------------------
(* State *)

VARIABLES
    GLOBAL_USER_CACHES, \* tmdb key -> (cache key -> entry)
    now,                \* Date.now()
    ticks,              \* clock advances made so far
    req,                \* request slot -> state of its catalog request
    metaReq,            \* request slot -> state of its detail request
    addonInterface      \* the interface makeAddon built last

vars == <<GLOBAL_USER_CACHES, now, ticks, req, metaReq, addonInterface>>

Req == 1..NumReq

\* identifiers are numbered: imdb id n stands for the string 'tt<n>'
NoMeta == [id |-> 0, type |-> "", tmdbId |-> 0]

\* one getTmdbItem call of the fan-out.  pc: search (first search in
\* flight), search2 (second search in flight), ids (external-ids call in
\* flight), rec (resolved to a record), null (resolved to null),
\* rejected (the mapper threw before calling getTmdbItem); searches: the
\* search calls issued so far; withYear: the first search carries a
\* year; last: the provider response received last (history)
Task(pc, searches, withYear, tmdbId, meta) ==
    [pc |-> pc, searches |-> searches, withYear |-> withYear,
     tmdbId |-> tmdbId, meta |-> meta, last |-> [k |-> "", id |-> 0]]

Settled(t) == t.pc \in {"rec", "null", "rejected"}

Idle ==
    [pc |-> "idle", out |-> "none", err |-> "", result |-> <<>>,
     tmdbKey |-> "", apiKeys |-> <<>>, type |-> "",
     extra |-> Extra(FALSE, FALSE, <<>>, SkipIn(FALSE, Num(0))),
     search |-> <<>>, query |-> <<>>, skip |-> Num(0),
     filtered |-> FALSE, hit |-> FALSE,
     look |-> [done |-> FALSE, found |-> FALSE, ts |-> 0, at |-> 0,
               pid |-> 0, items |-> <<>>],
     mi |-> 0, ki |-> 0, attempts |-> <<>>, gen |-> "none",
     text |-> [fenced |-> FALSE, k |-> "empty", v |-> <<>>],
     cachedList |-> <<>>, src |-> 0, pageItems |-> <<>>, tasks |-> <<>>,
     settled |-> <<>>,
     prior |-> [puts |-> {}, noResult |-> {}], put |-> FALSE, putAt |-> 0]

\* the record a detail request returns (lines 209-220: id and type as
\* asked, the other fields from the item of tmdbId); id <<>> stands for
\* null
Detail(id, type, tmdbId) == [id |-> id, type |-> type, tmdbId |-> tmdbId]

NoDetail == Detail(<<>>, "", 0)

\* a detail request.  pc: find (tmdb.find in flight), info (movieInfo or
\* tvInfo in flight), done; calls: the provider calls made so far;
\* faulted: a provider call of the request raised an error
IdleMeta ==
    [pc |-> "idle", out |-> "none", type |-> "", id |-> <<>>,
     calls |-> <<>>, faulted |-> FALSE, tmdbId |-> 0, meta |-> NoDetail]

\* lines 63-123: what the interface built for a config advertises and
\* which handlers it has
makeAddon(config) ==
    IF Unconfigured(config)
    THEN [built |-> TRUE, config |-> config, resources |-> {},
          catalogs |-> {}, handlers |-> {}]
    ELSE [built |-> TRUE, config |-> config,
          resources |-> {"catalog", "meta"},
          catalogs |-> {"movie", "series"},
          handlers |-> {"catalog", "meta"}]

NoInterface ==
    [built |-> FALSE, config |-> Config("", FALSE, <<>>), resources |-> {},
     catalogs |-> {}, handlers |-> {}]

Init ==
    /\ GLOBAL_USER_CACHES = <<>>
    /\ now = 0
    /\ ticks = 0
    /\ req = [r \in Req |-> Idle]
    /\ metaReq = [r \in Req |-> IdleMeta]
    /\ addonInterface = NoInterface

----------------------------------------------------------------------------
(* Cache *)

\* an entry aged exactly TTL still counts as fresh
IsFreshInclusive(timestamp, t) == t - timestamp <= CACHE_TTL

\* line 285: Date.now() - cached.timestamp < CACHE_TTL
IsFresh(timestamp, t) == t - timestamp < CACHE_TTL

\* Map.prototype.delete
MapDelete(m, k) == [x \in DOMAIN m \ {k} |-> m[x]]

\* the value already stored under a key is kept
MapSetIfAbsent(m, k, v) ==
    [x \in DOMAIN m \cup {k} |-> IF x \in DOMAIN m THEN m[x] ELSE v]

\* Map.prototype.set
MapSet(m, k, v) == [x \in DOMAIN m \cup {k} |-> IF x = k THEN v ELSE m[x]]

\* one partition at a time: that of a new tenant takes the place of all
EnsurePartitionOnly(caches, tmdbKey) ==
    IF tmdbKey \in DOMAIN caches THEN caches ELSE [x \in {tmdbKey} |-> <<>>]

\* lines 126-128: the partition of tmdbKey, created when missing
EnsurePartition(caches, tmdbKey) ==
    IF tmdbKey \in DOMAIN caches THEN caches
    ELSE MapSet(caches, tmdbKey, <<>>)

\* line 312: the entry stored for a generated list (pid: history, the
\* request that made the put)
NewEntry(items, t, pid) == [timestamp |-> t, items |-> items, pid |-> pid]

----------------------------------------------------------------------------
(* Fan-out over a page: lines 315-326 up to the first await *)

\* lines 320-322 and 132-137/162: the mapper reads item.title and
\* item.year, which throws on null, then getTmdbItem issues its first search
StartTask(item, type) ==
    IF item.kind = "null"
    THEN Task("rejected", 0, FALSE, 0, NoMeta)
    ELSE Task("search", 1, type = "movie" /\ item.year # 0, 0, NoMeta)

\* the settled values unfiltered: a placeholder for every null
FilterMetasKeepNull(tasks) == [i \in 1..Len(tasks) |-> tasks[i].meta]

\* line 324: (await Promise.all(metaPromises)).filter(m => m !== null)
FilterMetas(tasks) ==
    LET resolved == SelectSeq(tasks, LAMBDA t : t.pc = "rec")
    IN [i \in 1..Len(resolved) |-> resolved[i].meta]

\* the request completes: a {metas: ...} value, or a thrown error
Finish(rq, out, err, result) ==
    [rq EXCEPT !.pc = "done", !.out = out, !.err = err, !.result = result]

\* lines 315-326: the page check, the slice and the start of every
\* getTmdbItem call; a rejected mapper call rejects Promise.all at once
Paginate(rq) ==
    IF SkipBeyond(rq.skip, rq.cachedList)
    THEN Finish(rq, "metas", "", <<>>)
    ELSE LET page == pageItems(rq.cachedList, rq.skip)
             tasks == [i \in 1..Len(page) |-> StartTask(page[i], rq.type)]
             started == [rq EXCEPT !.pageItems = page, !.tasks = tasks]
         IN IF \E i \in 1..Len(tasks) : tasks[i].pc = "rejected"
            THEN Finish(started, "throw", "TypeError", <<>>)
            ELSE IF Len(page) = 0
            THEN Finish(started, "metas", "", <<>>)
            ELSE [started EXCEPT !.pc = "resolve"]

----------------------------------------------------------------------------
(* generateWithRetry: lines 227-253 *)

\* the loops nested the other way round: credential-major, model-minor
NextPairKeyMajor(mi, ki, nKeys) ==
    IF mi < Len(MODEL_POOL) THEN [mi |-> mi + 1, ki |-> ki, over |-> FALSE]
    ELSE IF ki < nKeys THEN [mi |-> 1, ki |-> ki + 1, over |-> FALSE]
    ELSE [mi |-> mi, ki |-> ki, over |-> TRUE]

\* the pair the nested loops reach after a failed attempt at (mi, ki);
\* over = TRUE when both loops have run out (line 251)
NextPair(mi, ki, nKeys) ==
    IF ki < nKeys THEN [mi |-> mi, ki |-> ki + 1, over |-> FALSE]
    ELSE IF mi < Len(MODEL_POOL) THEN [mi |-> mi + 1, ki |-> 1, over |-> FALSE]
    ELSE [mi |-> mi, ki |-> ki, over |-> TRUE]

\* only a quota failure moves on to the next pair; any other fault ends
\* the call
AfterFailureQuotaOnly(kind, mi, ki, nKeys) ==
    IF kind = "quota" THEN NextPair(mi, ki, nKeys)
    ELSE [mi |-> mi, ki |-> ki, over |-> TRUE]

\* lines 239-248: what the catch block does with a failed attempt; both
\* branches continue the inner loop
AfterFailure(kind, mi, ki, nKeys) ==
    IF kind = "quota" THEN NextPair(mi, ki, nKeys)
    ELSE NextPair(mi, ki, nKeys)

\* one attempt, as recorded in the history of the call: the model and the
\* credential used, how it ended, and the text it produced if it succeeded
Attempt(mi, ki, res, text) == [m |-> mi, k |-> ki, res |-> res, text |-> text]

NoText == Text(FALSE, "empty", <<>>)

\* generateWithRetry returns: mi, ki and the history of its attempts are
\* locals of the call
Returned(rq, gen, E) ==
    [rq EXCEPT !.gen = gen, !.mi = 0, !.ki = 0,
               !.attempts = IF E.keepLog THEN @ ELSE <<>>]

----------------------------------------------------------------------------
(* The catalog handler: lines 257-327 *)

\* a keyword of the other media type filters even when one of the
\* request's own type is present too
FilteredOutAnyKeyword(type, query) ==
    \/ wantsMovies(query) /\ type = "series"
    \/ wantsSeries(query) /\ type = "movie"

\* only movie-leaning queries are filtered
FilteredOutMovieOnly(type, query) ==
    wantsMovies(query) /\ ~wantsSeries(query) /\ type = "series"

\* lines 276-277
FilteredOut(type, query) ==
    \/ wantsMovies(query) /\ ~wantsSeries(query) /\ type = "series"
    \/ wantsSeries(query) /\ ~wantsMovies(query) /\ type = "movie"

\* a hit renews the entry: its timestamp becomes the time of the read
LookupSliding(part, key, t) ==
    IF key \in DOMAIN part
    THEN IF IsFresh(part[key].timestamp, t)
         THEN [list |-> part[key].items,
               part |-> MapSet(part, key, [part[key] EXCEPT !.timestamp = t]),
               hit |-> TRUE]
         ELSE [list |-> <<>>, part |-> MapDelete(part, key), hit |-> FALSE]
    ELSE [list |-> <<>>, part |-> part, hit |-> FALSE]

\* an entry is removed by the read that serves it
LookupEvicting(part, key, t) ==
    IF key \in DOMAIN part
    THEN IF IsFresh(part[key].timestamp, t)
         THEN [list |-> part[key].items, part |-> MapDelete(part, key),
               hit |-> TRUE]
         ELSE [list |-> <<>>, part |-> MapDelete(part, key), hit |-> FALSE]
    ELSE [list |-> <<>>, part |-> part, hit |-> FALSE]

\* a hit serves the stored list without its first candidate
LookupDropsFirst(part, key, t) ==
    IF key \in DOMAIN part
    THEN IF IsFresh(part[key].timestamp, t)
         THEN [list |-> Tail(part[key].items), part |-> part, hit |-> TRUE]
         ELSE [list |-> <<>>, part |-> MapDelete(part, key), hit |-> FALSE]
    ELSE [list |-> <<>>, part |-> part, hit |-> FALSE]

\* lines 283-291: the list served from the partition (empty on a miss)
\* and the partition after the lookup
Lookup(part, key, t) ==
    IF key \in DOMAIN part
    THEN IF IsFresh(part[key].timestamp, t)
         THEN [list |-> part[key].items, part |-> part, hit |-> TRUE]
         ELSE [list |-> <<>>, part |-> MapDelete(part, key), hit |-> FALSE]
    ELSE [list |-> <<>>, part |-> part, hit |-> FALSE]

\* history: what the lookup found
Seen(part, key, t) ==
    IF key \in DOMAIN part
    THEN [done |-> TRUE, found |-> TRUE, ts |-> part[key].timestamp,
          at |-> t, pid |-> part[key].pid, items |-> part[key].items]
    ELSE [done |-> TRUE, found |-> FALSE, ts |-> 0, at |-> t, pid |-> 0,
          items |-> <<>>]

\* the cached list is ignored and every request generates
AlwaysGenerates(list) == TRUE

\* line 293: cachedList.length === 0 starts a generation
NeedsGeneration(list) == Len(list) = 0

\* lines 259-293 and, on a hit, 315-326: the handler from its entry to
\* its first await
HandlerEntry(rq, part, t) ==
    LET key == cacheKey(rq.type, rq.query)
        lk == Lookup(part, key, t)
        looked == [rq EXCEPT !.look = Seen(part, key, t), !.hit = lk.hit,
                             !.cachedList = lk.list,
                             !.src = IF lk.hit THEN part[key].pid ELSE 0]
    IN IF FilteredOut(rq.type, rq.query)
       THEN [rq |-> Finish([rq EXCEPT !.filtered = TRUE], "metas", "", <<>>),
             part |-> part]
       ELSE IF NeedsGeneration(lk.list)
       THEN [rq |-> [looked EXCEPT !.pc = "gen", !.mi = 1, !.ki = 1],
             part |-> lk.part]
       ELSE [rq |-> Paginate(looked), part |-> lk.part]

\* history: the requests of the same tenant and cache key that have so
\* far stored a list, and those that have so far completed after
\* generateWithRetry returned null
Prior(tmdbKey, type, query) ==
    LET same == {q \in Req : /\ req[q].tmdbKey = tmdbKey
                             /\ req[q].type = type
                             /\ req[q].query = query}
    IN [puts |-> {q \in same : req[q].put},
        noResult |-> {q \in same : req[q].pc = "done" /\ req[q].gen = "null"}]

\* the router builds the interface with makeAddon (src/server.js lines
\* 28-34) and dispatches the catalog request to its handler
Request(r, E) ==
    /\ req[r].pc = "idle"
    /\ r <= E.maxReq
    /\ E.serial => \A q \in Req : req[q].pc \in {"idle", "done"}
    /\ \A q \in Req : q < r => req[q].pc # "idle"
    /\ \E config \in E.configs, type \in E.types, extra \in E.extras :
         /\ addonInterface' = makeAddon(config)
         /\ LET base == [Idle EXCEPT !.type = type, !.extra = extra]
            IN IF Unconfigured(config)
               THEN /\ req' = [req EXCEPT ![r] =
                                 Finish(base, "nohandler", "", <<>>)]
                    /\ UNCHANGED GLOBAL_USER_CACHES
               ELSE LET caches == EnsurePartition(GLOBAL_USER_CACHES,
                                                  config.tmdb)
                        own == [base EXCEPT !.tmdbKey = config.tmdb,
                                            !.apiKeys = config.gemini]
                    IN IF NoSearch(extra)
                       THEN /\ req' = [req EXCEPT ![r] =
                                  Finish(own, "throw", "MissingQuery", <<>>)]
                            /\ GLOBAL_USER_CACHES' = caches
                       ELSE LET clean == cleanQuery(extra.search)
                                query == toLowerCase(clean)
                                rq == [own EXCEPT
                                         !.search = clean,
                                         !.query = query,
                                         !.skip = ParseSkip(extra.skip),
                                         !.prior = Prior(config.tmdb, type,
                                                         query)]
                                res == HandlerEntry(rq, caches[config.tmdb],
                                                    now)
                            IN /\ req' = [req EXCEPT ![r] = res.rq]
                               /\ GLOBAL_USER_CACHES' =
                                    [caches EXCEPT ![config.tmdb] = res.part]
    /\ UNCHANGED <<now, ticks, metaReq>>

\* the empty result is stored under the key before it is returned
OnNoTextCaching(rq, part, t, r) ==
    [rq |-> Finish(rq, "metas", "", <<>>),
     part |-> [x \in DOMAIN part \cup {cacheKey(rq.type, rq.query)} |->
                 IF x = cacheKey(rq.type, rq.query)
                 THEN [timestamp |-> t, items |-> <<>>, pid |-> r]
                 ELSE part[x]]]

\* line 305: if (!text) return { metas: [] }
OnNoText(rq, part, t, r) ==
    [rq |-> Finish(rq, "metas", "", <<>>), part |-> part]

\* lines 304-313 and 315-326: the handler from the return of
\* generateWithRetry to its next await
AfterGenerate(rq, part, text, t, r) ==
    IF IsFalsyText(text)
    THEN OnNoText(rq, part, t, r)
    ELSE LET suggestions == parseGeminiResponse(text)
         IN IF ~IsNonEmptyArray(suggestions)
            THEN [rq |-> Finish(rq, "metas", "", <<>>), part |-> part]
            ELSE LET key == cacheKey(rq.type, rq.query)
                     stored == [rq EXCEPT !.cachedList = suggestions.v,
                                          !.src = r, !.put = TRUE,
                                          !.putAt = t]
                 IN [rq |-> Paginate(stored),
                     part |-> MapSet(part, key,
                                     NewEntry(suggestions.v, t, r))]

\* lines 234-238: the attempt in flight succeeds and its text is returned
GenSucceed(r, E) ==
    /\ req[r].pc = "gen"
    /\ \E text \in E.texts :
         LET tried == [req[r] EXCEPT
                         !.attempts = Append(@, Attempt(req[r].mi, req[r].ki,
                                                        "ok", text)),
                         !.text = text]
             rq == Returned(tried, "text", E)
             res == AfterGenerate(rq, GLOBAL_USER_CACHES[rq.tmdbKey], text,
                                  now, r)
         IN /\ req' = [req EXCEPT ![r] = res.rq]
            /\ GLOBAL_USER_CACHES' =
                 [GLOBAL_USER_CACHES EXCEPT ![rq.tmdbKey] = res.part]
    /\ UNCHANGED <<now, ticks, metaReq, addonInterface>>

\* lines 239-252: the attempt in flight fails; the loops go on to the
\* next pair, or run out and the call returns null (line 305 then
\* returns the empty catalog)
GenFail(r, E) ==
    /\ req[r].pc = "gen"
    /\ \E kind \in E.failKinds :
         LET rq == req[r]
             nx == AfterFailure(kind, rq.mi, rq.ki, Len(rq.apiKeys))
             tried == [rq EXCEPT !.attempts =
                         Append(@, Attempt(rq.mi, rq.ki, kind, NoText))]
             res == OnNoText(Returned(tried, "null", E),
                             GLOBAL_USER_CACHES[rq.tmdbKey], now, r)
         IN IF nx.over
            THEN /\ req' = [req EXCEPT ![r] = res.rq]
                 /\ GLOBAL_USER_CACHES' =
                      [GLOBAL_USER_CACHES EXCEPT ![rq.tmdbKey] = res.part]
            ELSE /\ req' = [req EXCEPT ![r] =
                              [tried EXCEPT !.mi = nx.mi, !.ki = nx.ki]]
                 /\ UNCHANGED GLOBAL_USER_CACHES
    /\ UNCHANGED <<now, ticks, metaReq, addonInterface>>

----------------------------------------------------------------------------
(* getTmdbItem: lines 132-188 *)

\* a response of the metadata provider.  To a search: hit (results[0].id
\* = id), empty (no results) or fault.  To an external-ids call: imdb
\* (imdb_id = id), none (no imdb_id) or fault
Resp(k, id) == [k |-> k, id |-> id]

\* lines 152-160 and 174-182
Meta(imdbId, type, tmdbId) == [id |-> imdbId, type |-> type, tmdbId |-> tmdbId]

TaskNull(task) == [task EXCEPT !.pc = "null"]

\* the series branch searches once more as well
AfterEmptySearchAnyType(task, type) ==
    IF task.pc = "search"
    THEN [task EXCEPT !.pc = "search2", !.searches = @ + 1]
    ELSE TaskNull(task)

\* lines 139-145: the movie branch searches once more, without the year,
\* when the first search found nothing
AfterEmptySearch(task, type) ==
    IF type = "movie" /\ task.pc = "search"
    THEN [task EXCEPT !.pc = "search2", !.searches = @ + 1]
    ELSE TaskNull(task)

\* a record is returned whether or not the match has an imdb_id
AfterExternalIdsUnchecked(task, type, resp) ==
    [task EXCEPT !.pc = "rec", !.meta = Meta(resp.id, type, task.tmdbId)]

\* lines 150-160 and 172-182: null without an imdb_id, else the record
AfterExternalIds(task, type, resp) ==
    IF resp.k = "imdb" /\ resp.id # 0
    THEN [task EXCEPT !.pc = "rec", !.meta = Meta(resp.id, type, task.tmdbId)]
    ELSE TaskNull(task)

\* getTmdbItem resumes with the response to the call it awaits; any
\* fault is caught and gives null (lines 184-187)
getTmdbItem(task, type, resp) ==
    LET got == [task EXCEPT !.last = resp]
    IN IF resp.k = "fault" THEN TaskNull(got)
       ELSE IF task.pc \in {"search", "search2"}
       THEN IF resp.k = "hit"
            THEN [got EXCEPT !.pc = "ids", !.tmdbId = resp.id]
            ELSE AfterEmptySearch(got, type)
       ELSE AfterExternalIds(got, type, resp)

\* a metadata provider that answers by a fixed table: a title is found
\* under its own number unless that is 0 or a multiple of 3, and a found
\* title has an imdb id unless its number is a multiple of 4
DbSearch(item) ==
    IF item.title = 0 THEN Resp("fault", 0)
    ELSE IF item.title % 3 = 0 THEN Resp("empty", 0)
    ELSE Resp("hit", item.title)

DbExternalIds(tmdbId) ==
    IF tmdbId % 4 = 0 THEN Resp("none", 0) ELSE Resp("imdb", 100 + tmdbId)

\* the responses the environment E may give to the call a task awaits
Responses(E, task, item) ==
    IF task.pc \in {"search", "search2"}
    THEN IF E.db THEN {DbSearch(item)} ELSE E.searchOuts
    ELSE IF E.db THEN {DbExternalIds(task.tmdbId)} ELSE E.idsOuts

\* the handler resumes as soon as one promise has settled
JoinAny(rq) ==
    IF rq.pc = "resolve" /\ \E i \in 1..Len(rq.tasks) : Settled(rq.tasks[i])
    THEN Finish(rq, "metas", "", FilterMetas(rq.tasks))
    ELSE rq

\* task i of rq has resumed as task; settled (history): the positions of
\* the getTmdbItem calls in the order in which they have returned
Resumed(rq, i, task) ==
    [rq EXCEPT !.tasks[i] = task,
               !.settled = IF Settled(task) THEN Append(@, i) ELSE @]

\* line 324-326: the handler resumes when every promise has settled
Join(rq) ==
    IF rq.pc = "resolve" /\ \A i \in 1..Len(rq.tasks) : Settled(rq.tasks[i])
    THEN Finish(rq, "metas", "", FilterMetas(rq.tasks))
    ELSE rq

\* the provider call awaited by task i of request r returns
TmdbReturn(r, E) ==
    /\ \E i \in 1..Len(req[r].tasks) :
         /\ ~Settled(req[r].tasks[i])
         /\ E.inOrder => \A j \in 1..(i - 1) : Settled(req[r].tasks[j])
         /\ \E resp \in Responses(E, req[r].tasks[i], req[r].pageItems[i]) :
              req' = [req EXCEPT ![r] =
                        Join(Resumed(req[r], i,
                                     getTmdbItem(req[r].tasks[i], req[r].type,
                                                 resp)))]
    /\ UNCHANGED <<GLOBAL_USER_CACHES, now, ticks, metaReq, addonInterface>>

----------------------------------------------------------------------------
(* The detail handler: lines 190-225 and 329-338 *)

\* 'TT...' passes for the canonical shape as well
startsWithTtAnyCase(id) == Len(id) > 0 /\ id[1] \in {"tt", "TT"}

\* line 330: id.startsWith('tt'); an identifier is a sequence of tokens
startsWithTt(id) == Len(id) > 0 /\ id[1] = "tt"

\* a response of tmdb.find: the tmdb ids of movie_results and tv_results
FindRes(movies, tvs) ==
    [k |-> "ok", movie_results |-> movies, tv_results |-> tvs]

\* a provider call raises an error
Fault == [k |-> "fault", movie_results |-> <<>>, tv_results |-> <<>>]

\* the item movieInfo or tvInfo returns
Item == [k |-> "item", movie_results |-> <<>>, tv_results |-> <<>>]

\* what getTmdbMeta hands to the handler: a value, or a thrown error
Outcome(thrown, value) == [thrown |-> thrown, value |-> value]

\* lines 221-224: the catch block of getTmdbMeta returns null
getTmdbMetaCatch == Outcome(FALSE, NoDetail)

\* lines 331-337: return { meta: meta || null }, or rethrow
MetaHandlerResume(rq, outcome) ==
    IF outcome.thrown
    THEN [rq EXCEPT !.pc = "done", !.out = "throw"]
    ELSE [rq EXCEPT !.pc = "done", !.out = "meta", !.meta = outcome.value]

\* lines 192-203: getTmdbMeta resumes with the response of tmdb.find
AfterFind(rq, res) ==
    IF res.k = "fault"
    THEN MetaHandlerResume([rq EXCEPT !.faulted = TRUE], getTmdbMetaCatch)
    ELSE IF rq.type = "movie" /\ Len(res.movie_results) > 0
    THEN [rq EXCEPT !.pc = "info", !.tmdbId = res.movie_results[1],
                    !.calls = Append(@, "movieInfo")]
    ELSE IF rq.type = "series" /\ Len(res.tv_results) > 0
    THEN [rq EXCEPT !.pc = "info", !.tmdbId = res.tv_results[1],
                    !.calls = Append(@, "tvInfo")]
    ELSE MetaHandlerResume(rq, Outcome(FALSE, NoDetail))

\* lines 205-220: getTmdbMeta resumes with the response of movieInfo or
\* tvInfo
AfterInfo(rq, res) ==
    IF res.k = "fault"
    THEN MetaHandlerResume([rq EXCEPT !.faulted = TRUE], getTmdbMetaCatch)
    ELSE MetaHandlerResume(rq, Outcome(FALSE,
                                       Detail(rq.id, rq.type, rq.tmdbId)))

\* an environment of detail requests: how many arrive, with which
\* configs, types and ids, and what the metadata provider may answer
EnvMeta(n, cf, ty, ids, fo, io) ==
    [maxReq |-> n, configs |-> cf, types |-> ty, ids |-> ids,
     findOuts |-> fo, infoOuts |-> io]

\* the router builds the interface with makeAddon (src/server.js lines
\* 28-34) and dispatches the detail request to its handler (lines
\* 329-332, up to the first await)
MetaRequest(r, E) ==
    /\ metaReq[r].pc = "idle"
    /\ r <= E.maxReq
    /\ \A q \in Req : q < r => metaReq[q].pc # "idle"
    /\ \E config \in E.configs, type \in E.types, id \in E.ids :
         /\ addonInterface' = makeAddon(config)
         /\ LET rq == [IdleMeta EXCEPT !.type = type, !.id = id]
            IN IF Unconfigured(config)
               THEN /\ metaReq' = [metaReq EXCEPT ![r] =
                         [rq EXCEPT !.pc = "done", !.out = "nohandler"]]
                    /\ UNCHANGED GLOBAL_USER_CACHES
               ELSE /\ GLOBAL_USER_CACHES' =
                         EnsurePartition(GLOBAL_USER_CACHES, config.tmdb)
                    /\ metaReq' = [metaReq EXCEPT ![r] =
                         IF ~startsWithTt(id)
                         THEN [rq EXCEPT !.pc = "done", !.out = "meta"]
                         ELSE [rq EXCEPT !.pc = "find", !.calls = <<"find">>]]
    /\ UNCHANGED <<now, ticks, req>>

\* the provider call awaited by detail request r returns
MetaReturn(r, E) ==
    /\ metaReq[r].pc \in {"find", "info"}
    /\ \E res \in IF metaReq[r].pc = "find" THEN E.findOuts ELSE E.infoOuts :
         metaReq' = [metaReq EXCEPT ![r] =
                       IF metaReq[r].pc = "find" THEN AfterFind(@, res)
                       ELSE AfterInfo(@, res)]
    /\ UNCHANGED <<GLOBAL_USER_CACHES, now, ticks, req, addonInterface>>

\* the wall clock advances
Tick(E) ==
    /\ ticks < MaxTicks
    /\ \E d \in E.steps : now' = now + d
    /\ ticks' = ticks + 1
    /\ UNCHANGED <<GLOBAL_USER_CACHES, req, metaReq, addonInterface>>

----------------------------------------------------------------------------
(* Environments and specifications *)

c1 == Obj(1, 2014)

c2 == Obj(2, 0)

c3 == Obj(3, 1999)

\* an environment: how many requests arrive (maxReq), whether each
\* arrives only after the ones before it have completed (serial), which
\* requests arrive (configs, types, extras),
\* what the suggestion provider may answer (texts, failKinds), what the
\* metadata provider may answer (searchOuts, idsOuts, or the fixed table
\* when db), how the clock may advance (steps), whether the provider
\* answers the calls of one page in page order (inOrder), and whether the
\* history of the attempts of a generateWithRetry call is kept once the
\* call has returned (keepLog)
Env(n, ser, cf, ty, ex, tx, fk, so, io, st, db, ord, log) ==
    [maxReq |-> n, serial |-> ser, configs |-> cf, types |-> ty,
     extras |-> ex, texts |-> tx, failKinds |-> fk, searchOuts |-> so,
     idsOuts |-> io, steps |-> st, db |-> db, inOrder |-> ord,
     keepLog |-> log]

Search(s, skip) == Extra(TRUE, TRUE, s, skip)

NoSkip == SkipIn(FALSE, Num(0))

\* one tenant and one query, asked for the page at offset 1 or 2; the
\* suggestion provider answers with one of two lists of two candidates or
\* fails on quota; the metadata provider answers by its table; the clock
\* advances by half a TTL
EnvCache ==
    Env(NumReq, FALSE,
        {Config("A", TRUE, <<"k1">>)},
        {"movie"},
        {Search(<<"sad">>, SkipIn(TRUE, Num(1))),
         Search(<<"sad">>, SkipIn(TRUE, Num(2)))},
        {Text(FALSE, "list", <<c1, c2>>), Text(TRUE, "list", <<c2, c1>>)},
        {"quota"},
        {}, {},
        {CACHE_TTL \div 2},
        TRUE, TRUE, FALSE)

\* one request of a tenant with one, two or three credentials; every
\* attempt may succeed, with a list or with the empty string, or fail on
\* quota or on another fault; the history of the attempts is kept
EnvGen ==
    Env(1, FALSE,
        {Config("A", TRUE, <<"k1">>), Config("B", TRUE, <<"k1", "k2">>),
         Config("C", TRUE, <<"k1", "k2", "k3">>)},
        {"movie"},
        {Search(<<"sad">>, NoSkip)},
        {Text(FALSE, "list", <<c1>>), NoText},
        {"quota", "generic"},
        {}, {}, {},
        TRUE, TRUE, TRUE)

\* the search strings of at most n tokens
Queries(n) == UNION {[1..k -> Tokens] : k \in 1..n}

\* two requests, one after the other, of one tenant, for either media
\* type and every search string of at most MaxQueryLen tokens, or with no
\* search string at all; the providers answer at once and by the table
EnvIntent ==
    Env(2, TRUE,
        {Config("A", TRUE, <<"k1">>)},
        {"movie", "series"},
        {Search(q, NoSkip) : q \in Queries(MaxQueryLen)}
            \cup {Extra(FALSE, FALSE, <<>>, NoSkip),
                  Extra(TRUE, FALSE, <<>>, NoSkip),
                  Extra(TRUE, TRUE, <<>>, NoSkip)},
        {Text(FALSE, "list", <<c1>>)},
        {}, {}, {}, {},
        TRUE, TRUE, FALSE)

\* the candidates 1..n, in order
Candidates(n) == [i \in 1..n |-> Obj(i, 2000 + i)]

\* one request for a page at an offset below, at and beyond the length of
\* the generated list, whose length lies below, at and beyond the page
\* size and twice the page size; skip may also be absent, not a number,
\* or negative
EnvPage ==
    Env(1, FALSE,
        {Config("A", TRUE, <<"k1">>)},
        {"movie", "series"},
        {Search(<<"sad">>, NoSkip), Search(<<"sad">>, SkipIn(TRUE, NaN))}
            \cup {Search(<<"sad">>, SkipIn(TRUE, Num(n))) :
                    n \in {-1, 1, 2, PAGE_SIZE - 1, PAGE_SIZE, PAGE_SIZE + 1,
                           PAGE_SIZE + 2, (2 * PAGE_SIZE) + 1}},
        {Text(FALSE, "list", Candidates(n)) :
            n \in {1, 2, PAGE_SIZE, PAGE_SIZE + 1, PAGE_SIZE + 2,
                   (2 * PAGE_SIZE) + 1}},
        {}, {}, {}, {},
        TRUE, TRUE, FALSE)

\* one request; the suggestion provider fails on quota or otherwise, or
\* answers with a list of candidates, a list holding null or a scalar,
\* an empty list, a JSON value that is no list, text that is not JSON,
\* or the empty string, fenced or not; every call of the metadata
\* provider may find a match, find none, or fail, in any order
EnvResolve ==
    Env(1, FALSE,
        {Config("A", TRUE, <<"k1">>)},
        {"movie", "series"},
        {Search(<<"sad">>, NoSkip), Search(<<"sad">>, SkipIn(TRUE, Num(1)))},
        {Text(FALSE, "list", <<c1, c2, c3>>),
         Text(TRUE, "list", <<c2, JsonScalar>>),
         Text(FALSE, "list", <<c1, JsonNull, c2>>),
         Text(FALSE, "list", <<>>),
         Text(FALSE, "object", <<>>),
         Text(TRUE, "malformed", <<>>),
         Text(TRUE, "empty", <<>>),
         NoText},
        {"quota", "generic"},
        {Resp("hit", 1), Resp("hit", 2), Resp("empty", 0), Resp("fault", 0)},
        {Resp("imdb", 101), Resp("imdb", 102), Resp("none", 0),
         Resp("fault", 0)},
        {},
        FALSE, FALSE, FALSE)

\* one catalog request and detail requests of a configured tenant and of
\* tenants with no metadata credential, no list of suggestion
\* credentials, or an empty one
Tenants ==
    {Config("A", TRUE, <<"k1">>), Config("", TRUE, <<"k1">>),
     Config("B", FALSE, <<>>), Config("C", TRUE, <<>>)}

EnvTenant ==
    Env(1, FALSE, Tenants, {"movie", "series"},
        {Search(<<"sad">>, NoSkip), Extra(FALSE, FALSE, <<>>, NoSkip)},
        {Text(FALSE, "list", <<c1>>)},
        {}, {}, {}, {},
        TRUE, TRUE, FALSE)

\* ids of the canonical shape and others; find may fail, or answer with
\* matches of either kind or none; the info call may fail
EnvDetail ==
    EnvMeta(NumReq, Tenants, {"movie", "series"},
            {<<"tt", "1">>, <<"TT", "1">>, <<"tmdb:", "1">>, <<>>},
            {Fault, FindRes(<<>>, <<>>), FindRes(<<7, 8>>, <<>>),
             FindRes(<<>>, <<9>>), FindRes(<<7>>, <<9>>)},
            {Fault, Item})

\* requests of one tenant for one key, one after the other; generation
\* succeeds at once with a list of candidates, an empty list, a JSON
\* value that is no list, text that is not JSON, or the empty string,
\* fenced or not
EnvParse ==
    Env(NumReq, TRUE,
        {Config("A", TRUE, <<"k1">>)},
        {"movie", "series"},
        {Search(<<"sad">>, NoSkip)},
        {Text(FALSE, "list", <<c1, c2>>),
         Text(TRUE, "list", <<c2>>),
         Text(FALSE, "list", <<>>),
         Text(TRUE, "list", <<>>),
         Text(FALSE, "object", <<>>),
         Text(FALSE, "malformed", <<>>),
         Text(TRUE, "malformed", <<>>),
         Text(TRUE, "empty", <<>>),
         NoText},
        {}, {}, {}, {},
        TRUE, TRUE, FALSE)

\* requests of one tenant, one after the other and with no time passing,
\* for one word written in capitals or not, with a space before or after
\* it, and with the suffix '.json', alone or followed by more
EnvKey ==
    Env(NumReq, TRUE,
        {Config("A", TRUE, <<"k1">>)},
        {"movie"},
        {Search(q, NoSkip) :
            q \in {<<"film">>, <<"Film">>, <<"film", ".json">>,
                   <<"film", " ">>, <<" ", "film">>,
                   <<"film", ".json", "sad">>}},
        {Text(FALSE, "list", <<c1>>), Text(FALSE, "list", <<c2>>)},
        {}, {}, {}, {},
        TRUE, TRUE, FALSE)

\* concurrent requests of two tenants for the second page of two
\* queries, half a TTL or a whole TTL passing between some of them; the
\* generated list has one candidate, so that no page is resolved
EnvTenants ==
    Env(NumReq, FALSE,
        {Config("A", TRUE, <<"k1">>), Config("B", TRUE, <<"k2">>)},
        {"movie"},
        {Search(<<"sad">>, SkipIn(TRUE, Num(PAGE_SIZE))),
         Search(<<"sad", "sad">>, SkipIn(TRUE, Num(PAGE_SIZE)))},
        {Text(FALSE, "list", <<c1>>)},
        {}, {}, {},
        {CACHE_TTL \div 2},
        TRUE, TRUE, FALSE)

Next ==
    \/ \E r \in Req : Request(r, EnvCache)
    \/ \E r \in Req : GenSucceed(r, EnvCache)
    \/ \E r \in Req : GenFail(r, EnvCache)
    \/ \E r \in Req : TmdbReturn(r, EnvCache)
    \/ Tick(EnvCache)

Spec == Init /\ [][Next]_vars

NextGen ==
    \/ \E r \in Req : Request(r, EnvGen)
    \/ \E r \in Req : GenSucceed(r, EnvGen)
    \/ \E r \in Req : GenFail(r, EnvGen)
    \/ \E r \in Req : TmdbReturn(r, EnvGen)

SpecGen == Init /\ [][NextGen]_vars

NextIntent ==
    \/ \E r \in Req : Request(r, EnvIntent)
    \/ \E r \in Req : GenSucceed(r, EnvIntent)
    \/ \E r \in Req : TmdbReturn(r, EnvIntent)

SpecIntent == Init /\ [][NextIntent]_vars

NextPage ==
    \/ \E r \in Req : Request(r, EnvPage)
    \/ \E r \in Req : GenSucceed(r, EnvPage)
    \/ \E r \in Req : TmdbReturn(r, EnvPage)

SpecPage == Init /\ [][NextPage]_vars

NextResolve ==
    \/ \E r \in Req : Request(r, EnvResolve)
    \/ \E r \in Req : GenSucceed(r, EnvResolve)
    \/ \E r \in Req : GenFail(r, EnvResolve)
    \/ \E r \in Req : TmdbReturn(r, EnvResolve)

SpecResolve == Init /\ [][NextResolve]_vars

\* every provider call in flight eventually returns (or fails)
ProviderReturns(r) ==
    \/ GenSucceed(r, EnvResolve)
    \/ GenFail(r, EnvResolve)
    \/ TmdbReturn(r, EnvResolve)

FairResolve == SpecResolve /\ \A r \in Req : WF_vars(ProviderReturns(r))

NextDetail ==
    \/ \E r \in Req : Request(r, EnvTenant)
    \/ \E r \in Req : GenSucceed(r, EnvTenant)
    \/ \E r \in Req : TmdbReturn(r, EnvTenant)
    \/ \E r \in Req : MetaRequest(r, EnvDetail)
    \/ \E r \in Req : MetaReturn(r, EnvDetail)

SpecDetail == Init /\ [][NextDetail]_vars

NextParse ==
    \/ \E r \in Req : Request(r, EnvParse)
    \/ \E r \in Req : GenSucceed(r, EnvParse)
    \/ \E r \in Req : TmdbReturn(r, EnvParse)

SpecParse == Init /\ [][NextParse]_vars

NextKey ==
    \/ \E r \in Req : Request(r, EnvKey)
    \/ \E r \in Req : GenSucceed(r, EnvKey)
    \/ \E r \in Req : TmdbReturn(r, EnvKey)

SpecKey == Init /\ [][NextKey]_vars

NextTenants ==
    \/ \E r \in Req : Request(r, EnvTenants)
    \/ \E r \in Req : GenSucceed(r, EnvTenants)
    \/ Tick(EnvTenants)

SpecTenants == Init /\ [][NextTenants]_vars

----------------------------------------------------------------------------
(* Vocabulary of the properties *)

\* the request has passed the MissingQuery check and the intent filter
\* and has read the cache
Looked(r) == req[r].look.done

SameKey(r1, r2) ==
    /\ req[r1].tmdbKey = req[r2].tmdbKey
    /\ req[r1].type = req[r2].type
    /\ req[r1].query = req[r2].query

\* generateWithRetry was invoked for the request
Generated(r) == req[r].pc = "gen" \/ req[r].gen # "none"

\* the entries of a tenant's partition (none when it has no partition)
Entries(caches, tmdbKey) ==
    IF tmdbKey \in DOMAIN caches THEN caches[tmdbKey] ELSE <<>>

\* the lookup of r read an entry aged TTL or more
ReadStale(r) ==
    /\ Looked(r) /\ req[r].look.found
    /\ req[r].look.at >= req[r].look.ts + CACHE_TTL

\* the lookup of r read an entry younger than TTL
ReadFresh(r) ==
    /\ Looked(r) /\ req[r].look.found
    /\ req[r].look.at < req[r].look.ts + CACHE_TTL

----------------------------------------------------------------------------
(* C5 *)

\* C5 (state part): a request whose lookup reads an entry created at t0
\* at a time t >= t0 + TTL is not served from it and goes on to
\* suggestion generation; a request whose lookup reads it at t < t0 + TTL
\* is a hit: it paginates over the entry's items and generates nothing.
C5_Served ==
    \A r \in Req :
        /\ ReadStale(r) => ~req[r].hit /\ Generated(r)
        /\ ReadFresh(r) => /\ req[r].hit
                           /\ ~Generated(r)
                           /\ req[r].cachedList = req[r].look.items
                           /\ req[r].src = req[r].look.pid

\* C5 (step part): the step in which a request reads an entry aged TTL or
\* more removes that entry from the tenant's partition.
C5_Evicts ==
    \A r \in Req :
        (req[r].pc = "idle" /\ ReadStale(r)')
            => cacheKey(req'[r].type, req'[r].query)
                   \notin DOMAIN GLOBAL_USER_CACHES'[req'[r].tmdbKey]

\* C5: a cache entry created at t0 is never served to a read at
\* t >= t0 + TTL: the read treats the key as absent, removes the entry and
\* proceeds to generation; a read at t < t0 + TTL is a hit.
C5_TtlExpiry == []C5_Served /\ [][C5_Evicts]_vars

\* a request read an entry exactly TTL after its creation and is
\* regenerating
C5_Witness ==
    \E r \in Req :
        /\ ReadStale(r) /\ req[r].look.at = req[r].look.ts + CACHE_TTL
        /\ req[r].pc = "gen"

----------------------------------------------------------------------------
(* C6 *)

\* the request paginated over a candidate list
Paginated(r) == Looked(r) /\ Len(req[r].cachedList) > 0

\* the lookups of the two requests lie less than TTL apart
InOneWindow(r1, r2) ==
    /\ req[r1].look.at - req[r2].look.at < CACHE_TTL
    /\ req[r2].look.at - req[r1].look.at < CACHE_TTL

\* C6 as stated: any two catalog requests for the same tenant, media type
\* and normalized query that both fall within one TTL window paginate
\* over the identical candidate sequence, for every interleaving.
C6_AsStated ==
    \A r1, r2 \in Req :
        (Paginated(r1) /\ Paginated(r2) /\ SameKey(r1, r2)
           /\ InOneWindow(r1, r2))
            => req[r1].cachedList = req[r2].cachedList

\* C6 as amended: requests served from the same cache entry paginate over
\* the identical candidate sequence: a request that reads, less than TTL
\* after it was stored, the entry another request stored paginates over
\* exactly the list that request generated, stored and paginated over
\* itself, and two requests that read the same entry fresh paginate over
\* the same list.
C6_SameEntrySameList ==
    /\ \A r1, r2 \in Req :
           (ReadFresh(r2) /\ req[r2].look.pid = r1)
               => /\ SameKey(r1, r2)
                  /\ Paginated(r2)
                  /\ req[r2].cachedList = req[r1].cachedList
    /\ \A r1, r2 \in Req :
           (Paginated(r1) /\ Paginated(r2) /\ req[r1].src = req[r2].src)
               => req[r1].cachedList = req[r2].cachedList

\* a request with another skip paginates over the two-candidate list an
\* earlier request stored
C6_Witness ==
    \E r1, r2 \in Req :
        /\ r1 # r2 /\ req[r1].put /\ ReadFresh(r2) /\ req[r2].look.pid = r1
        /\ req[r1].skip # req[r2].skip
        /\ Len(req[r2].cachedList) = 2
        /\ req[r2].pc = "done" /\ req[r1].pc = "done"

----------------------------------------------------------------------------
(* C7 *)

\* an earlier request stored a list for the key of r, and r read the
\* cache less than TTL after that
RepeatWithinTtl(r) ==
    /\ Looked(r)
    /\ \E q \in req[r].prior.puts :
           req[r].look.at < req[q].putAt + CACHE_TTL

\* the fan-out made one getTmdbItem call, and with it one search request
\* at least, for every candidate of the page of r
ResolvesWholePage(r) ==
    LET page == IF SkipBeyond(req[r].skip, req[r].cachedList) THEN <<>>
                ELSE pageItems(req[r].cachedList, req[r].skip)
    IN /\ Len(req[r].tasks) = Len(page)
       /\ \A i \in 1..Len(page) :
              page[i].kind # "null" => req[r].tasks[i].searches >= 1

\* C7: a catalog request repeated for the same tenant, media type and
\* normalized query after an earlier request stored a candidate list, and
\* before TTL has elapsed, makes no suggestion-provider call and still
\* invokes the metadata resolver for every candidate of its page.
C7_RepeatSkipsGeneration ==
    \A r \in Req :
        RepeatWithinTtl(r)
            => /\ ~Generated(r)
               /\ req[r].hit
               /\ ResolvesWholePage(r)

\* a repeat within TTL has completed with resolved records without one
\* generation attempt
C7_Witness ==
    \E r \in Req :
        /\ RepeatWithinTtl(r) /\ req[r].pc = "done"
        /\ Len(req[r].tasks) = 1 /\ Len(req[r].result) = 1
        /\ req[r].look.at > req[r].look.ts

----------------------------------------------------------------------------
(* C8 *)

\* some partition holds an entry that request r stored
HoldsEntryOf(r) ==
    \E t \in DOMAIN GLOBAL_USER_CACHES :
        \E k \in DOMAIN GLOBAL_USER_CACHES[t] :
            GLOBAL_USER_CACHES[t][k].pid = r

\* generateWithRetry returned null to the request
NoResult(r) == req[r].gen = "null"

\* C8: when the suggestion generator returns NoResult the request
\* returns {metas: []} and writes no cache entry, and a later request for
\* the same key, no list having been stored for it in between, invokes
\* the generator again.
C8_NoResultNotCached ==
    /\ \A r \in Req :
           NoResult(r) => /\ req[r].pc = "done" /\ req[r].out = "metas"
                          /\ req[r].result = <<>>
                          /\ ~req[r].put /\ ~HoldsEntryOf(r)
                          /\ req[r].tasks = <<>>
    /\ \A r1, r2 \in Req :
           (NoResult(r1) /\ Looked(r2) /\ SameKey(r1, r2)
              /\ r1 \in req[r2].prior.noResult
              /\ req[r2].prior.puts \subseteq req[r1].prior.puts)
               => ~req[r2].hit /\ Generated(r2)

\* a request completed with NoResult and the next request for its key is
\* generating again
C8_Witness ==
    \E r1, r2 \in Req :
        /\ NoResult(r1) /\ Looked(r2) /\ SameKey(r1, r2)
        /\ r1 \in req[r2].prior.noResult
        /\ req[r2].prior.puts \subseteq req[r1].prior.puts
        /\ req[r2].pc = "gen"

----------------------------------------------------------------------------
(* C3 and C4: generateWithRetry *)

\* the p-th pair of the pool in model-major, credential-minor order
PoolPair(p, nKeys) ==
    [m |-> ((p - 1) \div nKeys) + 1, k |-> ((p - 1) % nKeys) + 1]

PoolSize(nKeys) == Len(MODEL_POOL) * nKeys

Failed(a) == a.res # "ok"

\* the pairs attempted so far in the call of r, the one in flight included
Tried(r) ==
    IF req[r].pc = "gen"
    THEN Append([p \in 1..Len(req[r].attempts) |->
                    [m |-> req[r].attempts[p].m, k |-> req[r].attempts[p].k]],
                [m |-> req[r].mi, k |-> req[r].ki])
    ELSE [p \in 1..Len(req[r].attempts) |->
             [m |-> req[r].attempts[p].m, k |-> req[r].attempts[p].k]]

\* C3: generateWithRetry attempts the (model, credential) pairs one at a
\* time in model-major, credential-minor order: the p-th attempt of a
\* call is the p-th pair of that order, it is made only after every
\* earlier attempt has failed, and no pair is attempted twice.
C3_PoolOrder ==
    \A r \in Req :
        LET tried == Tried(r)
            nKeys == Len(req[r].apiKeys)
        IN /\ Len(tried) <= PoolSize(nKeys)
           /\ \A p \in 1..Len(tried) :
                  /\ tried[p] = PoolPair(p, nKeys)
                  /\ \A q \in 1..(p - 1) :
                         /\ Failed(req[r].attempts[q])
                         /\ tried[q] # tried[p]

\* with two credentials, the first model has failed on both and the
\* second model is being attempted with the first credential
C3_Witness ==
    \E r \in Req :
        /\ req[r].pc = "gen" /\ Len(req[r].apiKeys) = 2
        /\ Len(req[r].attempts) = 2
        /\ req[r].mi = 2 /\ req[r].ki = 1
        /\ req[r].attempts[1].res # req[r].attempts[2].res

\* the call of r has returned
GenReturned(r) == req[r].gen # "none"

\* C4: generateWithRetry returns the text of the first successful attempt
\* and makes no attempt after it; it returns null exactly when every pair
\* of the pool was attempted and failed; the pairs attempted and the
\* value returned depend on which attempts failed, not on whether a
\* failure was a quota failure or another fault.
C4_FirstSuccessOrNull ==
    \A r \in Req :
        LET log == req[r].attempts
            n == Len(log)
            nKeys == Len(req[r].apiKeys)
            exhausted == n = PoolSize(nKeys) /\ \A p \in 1..n : Failed(log[p])
        IN /\ req[r].gen = "text"
               => /\ n >= 1 /\ log[n].res = "ok"
                  /\ \A p \in 1..(n - 1) : Failed(log[p])
                  /\ req[r].text = log[n].text
                  /\ req[r].pc # "gen"
           /\ GenReturned(r) => (req[r].gen = "null" <=> exhausted)
           /\ req[r].pc = "gen" => ~GenReturned(r) /\ \A p \in 1..n : Failed(log[p])
           /\ \A p \in 1..n : [m |-> log[p].m, k |-> log[p].k] = PoolPair(p, nKeys)

\* a call returned null after failures of both kinds on the whole pool
\* of a tenant with two credentials
C4_Witness ==
    \E r \in Req :
        /\ req[r].gen = "null" /\ Len(req[r].apiKeys) = 2
        /\ Len(req[r].attempts) = PoolSize(2)
        /\ \E p, q \in 1..Len(req[r].attempts) :
               /\ req[r].attempts[p].res = "quota"
               /\ req[r].attempts[q].res = "generic"

----------------------------------------------------------------------------
(* C1 *)

NamesMovie(q) ==
    \E i \in 1..Len(q) : KeywordsIn(q[i]) \cap movieKeywords # {}

NamesSeries(q) ==
    \E i \in 1..Len(q) : KeywordsIn(q[i]) \cap seriesKeywords # {}

\* the handler of rq was entered with a search string whose normalized
\* query names a keyword of one media type only, and the request asks
\* for the other media type
CrossIntent(rq) ==
    /\ rq.pc # "idle" /\ rq.out # "nohandler" /\ rq.err # "MissingQuery"
    /\ \/ NamesMovie(rq.query) /\ ~NamesSeries(rq.query) /\ rq.type = "series"
       \/ NamesSeries(rq.query) /\ ~NamesMovie(rq.query) /\ rq.type = "movie"

C1_State ==
    \A r \in Req :
        CrossIntent(req[r]) =>
            /\ req[r].pc = "done" /\ req[r].out = "metas"
            /\ req[r].result = <<>>
            /\ ~Generated(r) /\ req[r].attempts = <<>>
            /\ req[r].tasks = <<>>
            /\ ~Looked(r) /\ ~req[r].put

C1_Step ==
    \A r \in Req :
        (req[r].pc = "idle" /\ CrossIntent(req'[r])) =>
            \A k \in DOMAIN GLOBAL_USER_CACHES' :
                Entries(GLOBAL_USER_CACHES', k) = Entries(GLOBAL_USER_CACHES, k)

\* C1: a series request whose normalized query names a movie keyword and
\* no series keyword, and a movie request whose normalized query names a
\* series keyword and no movie keyword, return {metas: []} at once: no
\* call of the suggestion provider, no call of the metadata provider, no
\* cache lookup, and every cache entry is left as it was.
C1_IntentFilter == []C1_State /\ [][C1_Step]_vars

\* a movie-only query was answered and cached for a movie request, and
\* the same query is then filtered for a series request
C1_Witness ==
    \E r \in Req :
        /\ CrossIntent(req[r]) /\ req[r].type = "series"
        /\ req[r].filtered
        /\ cacheKey("movie", req[r].query)
               \in DOMAIN Entries(GLOBAL_USER_CACHES, req[r].tmdbKey)

----------------------------------------------------------------------------
(* C2 *)

\* C2 (as stated): a catalog request that carries a search string, once
\* complete, has returned a {metas: sequence} value: it has not thrown,
\* whatever the suggestion and metadata providers did.
C2_NeverThrows ==
    \A r \in Req :
        (req[r].pc = "done" /\ req[r].err # "MissingQuery") =>
            req[r].out = "metas"

----------------------------------------------------------------------------
(* C9 *)

\* C9: for a candidate list of length L and a skip >= 0: if skip >= L the
\* request returns {metas: []} and starts no metadata resolution;
\* otherwise it starts exactly min(PAGE_SIZE, L - skip) resolutions, the
\* i-th of them for the candidate at position skip + i - 1 (0-based) of
\* the list.
C9_PageWindow ==
    \A r \in Req :
        (Paginated(r) /\ ~req[r].skip.nan /\ req[r].skip.n >= 0) =>
            LET L == Len(req[r].cachedList)
                s == req[r].skip.n
            IN IF s >= L
               THEN /\ req[r].pc = "done" /\ req[r].out = "metas"
                    /\ req[r].result = <<>>
                    /\ req[r].tasks = <<>>
               ELSE /\ Len(req[r].tasks) =
                         IF L - s < PAGE_SIZE THEN L - s ELSE PAGE_SIZE
                    /\ Len(req[r].pageItems) = Len(req[r].tasks)
                    /\ \A i \in 1..Len(req[r].tasks) :
                         /\ req[r].pageItems[i] = req[r].cachedList[s + i]
                         /\ req[r].tasks[i].searches >= 1

\* a list longer than a page, read from its second candidate: a full
\* page is resolved and the request returns records
C9_Witness ==
    \E r \in Req :
        /\ Paginated(r) /\ req[r].skip = Num(1)
        /\ Len(req[r].cachedList) = PAGE_SIZE + 2
        /\ Len(req[r].tasks) = PAGE_SIZE
        /\ req[r].pc = "done" /\ Len(req[r].result) > 0

----------------------------------------------------------------------------
(* C10 *)

\* the positions in the page of the candidates that resolved to a record
ResolvedAt(tasks) == {i \in 1..Len(tasks) : tasks[i].pc = "rec"}

\* C10: when a request returns the metas of a page, they are the records
\* of the candidates that resolved, each once, in the order those
\* candidates have in the page; nothing stands in for a candidate that
\* did not resolve.
C10_OnlyResolvedInOrder ==
    \A r \in Req :
        (req[r].pc = "done" /\ req[r].out = "metas" /\ req[r].tasks # <<>>) =>
            LET at == ResolvedAt(req[r].tasks)
            IN /\ Len(req[r].result) = Cardinality(at)
               /\ \A i \in at :
                    req[r].result[Cardinality({j \in at : j <= i})] =
                        req[r].tasks[i].meta
               /\ \A j \in 1..Len(req[r].result) :
                    req[r].result[j] # NoMeta /\ req[r].result[j].id # 0

\* of three candidates the second did not resolve: the records of the
\* first and the third are returned, in that order
C10_Witness ==
    \E r \in Req :
        /\ req[r].pc = "done" /\ req[r].out = "metas"
        /\ Len(req[r].tasks) = 3
        /\ ResolvedAt(req[r].tasks) = {1, 3}
        /\ req[r].tasks[1].meta # req[r].tasks[3].meta
        /\ req[r].result = <<req[r].tasks[1].meta, req[r].tasks[3].meta>>

----------------------------------------------------------------------------
(* C11 *)

\* C11 (as stated): a detail request for which a call of the metadata
\* provider raised an error ends in a failure thrown to the caller, not
\* in a {meta: null} result.
C11_FaultPropagates ==
    \A r \in Req :
        (metaReq[r].pc = "done" /\ metaReq[r].faulted) =>
            metaReq[r].out = "throw"

----------------------------------------------------------------------------
(* C12 *)

\* the config lacks the metadata credential or the list of suggestion
\* credentials, or that list is empty
LacksCredentials(c) == c.tmdb = "" \/ ~c.hasGemini \/ c.gemini = <<>>

\* the interface built last is that of a config lacking credentials
BuiltBare == addonInterface.built /\ LacksCredentials(addonInterface.config)

C12_State ==
    BuiltBare =>
        /\ addonInterface.catalogs = {}
        /\ addonInterface.resources = {}
        /\ addonInterface.handlers = {}

\* the step is the arrival of a request: the router builds an interface
Arrives ==
    \E r \in Req :
        \/ req[r].pc = "idle" /\ req'[r].pc # "idle"
        \/ metaReq[r].pc = "idle" /\ metaReq'[r].pc # "idle"

C12_Step ==
    (Arrives /\ BuiltBare') =>
        /\ GLOBAL_USER_CACHES' = GLOBAL_USER_CACHES
        /\ \A r \in Req :
             (req[r].pc = "idle" /\ req'[r].pc # "idle") =>
                 /\ req'[r].out = "nohandler"
                 /\ req'[r].attempts = <<>> /\ req'[r].tasks = <<>>
        /\ \A r \in Req :
             (metaReq[r].pc = "idle" /\ metaReq'[r].pc # "idle") =>
                 /\ metaReq'[r].out = "nohandler"
                 /\ metaReq'[r].calls = <<>>

\* C12: the interface built for a config with no metadata credential, no
\* list of suggestion credentials or an empty one advertises no catalog
\* and no resource and has no handler; the step that builds it creates no
\* cache partition, and the request it was built for reaches no handler
\* and makes no provider call.
C12_Unconfigured == []C12_State /\ [][C12_Step]_vars

\* a tenant with a metadata credential and an empty list of suggestion
\* credentials asks for a detail after a configured tenant got its
\* partition
C12_Witness ==
    /\ BuiltBare /\ addonInterface.config.tmdb = "C"
    /\ \E r \in Req : metaReq[r].out = "nohandler"
    /\ DOMAIN GLOBAL_USER_CACHES = {"A"}

----------------------------------------------------------------------------
(* C13 *)

\* the request has no extra, no extra.search, or an empty one
NoTerm(extra) == ~extra.present \/ ~extra.hasSearch \/ extra.search = <<>>

\* a catalog handler was entered without a search term
EnteredWithoutTerm(rq) ==
    rq.pc # "idle" /\ rq.out # "nohandler" /\ NoTerm(rq.extra)

C13_State ==
    \A r \in Req :
        EnteredWithoutTerm(req[r]) =>
            /\ req[r].pc = "done" /\ req[r].out = "throw"
            /\ req[r].err = "MissingQuery"
            /\ ~Looked(r) /\ ~req[r].put
            /\ ~Generated(r) /\ req[r].attempts = <<>>
            /\ req[r].tasks = <<>>

C13_Step ==
    \A r \in Req :
        (req[r].pc = "idle" /\ EnteredWithoutTerm(req'[r])) =>
            \A k \in DOMAIN GLOBAL_USER_CACHES' :
                Entries(GLOBAL_USER_CACHES', k) = Entries(GLOBAL_USER_CACHES, k)

\* C13: a catalog request with no extra, no extra.search or an empty
\* extra.search throws MissingQuery at once: no cache lookup, no
\* generation attempt, no metadata call, and every cache entry is left
\* as it was.
C13_MissingQuery == []C13_State /\ [][C13_Step]_vars

\* a request with an empty search string throws while the tenant's
\* partition holds an entry
C13_Witness ==
    \E r \in Req :
        /\ EnteredWithoutTerm(req[r]) /\ req[r].extra.hasSearch
        /\ req[r].err = "MissingQuery"
        /\ DOMAIN Entries(GLOBAL_USER_CACHES, req[r].tmdbKey) # {}

----------------------------------------------------------------------------
(* C14 *)

\* C14: a detail request whose id does not begin with 'tt' returns
\* {meta: null} and makes no call of the metadata provider.
C14_NonCanonicalAbsent ==
    \A r \in Req :
        (/\ metaReq[r].pc # "idle" /\ metaReq[r].out # "nohandler"
         /\ (metaReq[r].id = <<>> \/ Head(metaReq[r].id) # "tt")) =>
            /\ metaReq[r].pc = "done" /\ metaReq[r].out = "meta"
            /\ metaReq[r].meta = NoDetail
            /\ metaReq[r].calls = <<>>

\* an id in capitals is answered with null while another request, with a
\* canonical id, has found its record
C14_Witness ==
    \E r, q \in Req :
        /\ metaReq[r].id = <<"TT", "1">> /\ metaReq[r].out = "meta"
        /\ metaReq[q].out = "meta" /\ metaReq[q].meta # NoDetail

----------------------------------------------------------------------------
(* C15 *)

\* a catalog handler was entered with a search term whose normalized
\* query names keywords of both media types, or of neither
EnteredNeutral(rq) ==
    /\ rq.pc # "idle" /\ rq.out # "nohandler" /\ ~NoTerm(rq.extra)
    /\ NamesMovie(rq.query) <=> NamesSeries(rq.query)

\* C15: a request of either media type whose normalized query names
\* keywords of both media types, or of neither, is not answered by the
\* intent filter: it reads the cache, and on a miss goes on to suggestion
\* generation.
C15_NeutralProceeds ==
    \A r \in Req :
        EnteredNeutral(req[r]) =>
            /\ ~req[r].filtered
            /\ Looked(r)
            /\ ~req[r].hit => Generated(r)

\* a series request whose query names a movie and a series keyword has
\* missed and generated, and a movie request with the same query too
C15_Witness ==
    \E r, q \in Req :
        /\ EnteredNeutral(req[r]) /\ EnteredNeutral(req[q])
        /\ NamesMovie(req[r].query) /\ req[r].query = req[q].query
        /\ req[r].type = "series" /\ req[q].type = "movie"
        /\ Generated(r) /\ Generated(q)

----------------------------------------------------------------------------
(* C16 *)

\* the getTmdbItem calls of request r
Calls(r) == {i \in 1..Len(req[r].tasks) : req[r].tasks[i].pc # "rejected"}

\* C16 (as stated): resolving one candidate issues at most one search
\* request.
C16_AsStated ==
    \A r \in Req : \A i \in Calls(r) : req[r].tasks[i].searches <= 1

C16_State ==
    \A r \in Req : \A i \in Calls(r) :
        LET t == req[r].tasks[i]
        IN /\ t.searches \in {1, 2}
           /\ req[r].type = "series" => t.searches = 1
           /\ t.withYear <=>
                (req[r].type = "movie" /\ req[r].pageItems[i].year # 0)
           /\ t.pc = "search" => t.searches = 1
           /\ t.pc = "search2" => t.searches = 2
           /\ t.searches = 2 =>
                \/ t.pc = "search2" /\ t.last.k = "empty"
                \/ t.pc # "search2" /\ t.last.k # ""
           /\ t.last.k = "fault" => t.pc = "null"
           /\ (t.searches = 2 /\ t.pc # "search2" /\ t.last.k = "empty") =>
                t.pc = "null"

C16_Step ==
    \A r \in Req : \A i \in Calls(r) :
        (/\ req[r].pc # "idle" /\ Len(req'[r].tasks) = Len(req[r].tasks)
         /\ req'[r].tasks[i].searches # req[r].tasks[i].searches) =>
            /\ req[r].tasks[i].pc = "search"
            /\ req'[r].tasks[i].last.k = "empty"
            /\ req'[r].tasks[i].searches = 2

\* C16 (amended): resolving a candidate never repeats a call after a
\* fault and issues at most two searches.  A series candidate is
\* searched once, by title only.  A movie candidate is searched by title
\* and by year when it has one, and only when that search returns no
\* match it is searched a second time, by title only; it is Absent when
\* the second search returns no match either.
C16_OneFallback == []C16_State /\ [][C16_Step]_vars

\* a movie candidate with a year that found no match with the year has
\* resolved through the second search
C16_Witness ==
    \E r \in Req : \E i \in Calls(r) :
        /\ req[r].type = "movie" /\ req[r].tasks[i].withYear
        /\ req[r].tasks[i].searches = 2
        /\ req[r].tasks[i].pc = "rec"

----------------------------------------------------------------------------
(* C17 *)

C17_State ==
    \A r \in Req : \A i \in Calls(r) :
        LET t == req[r].tasks[i]
        IN /\ t.pc \in {"search", "search2", "ids", "rec", "null"}
           /\ t.last.k \in {"fault", "none"} => t.pc = "null"
           /\ (t.last.k = "empty" /\ t.pc # "search2") => t.pc = "null"
           /\ t.pc = "null" => t.meta = NoMeta
           /\ t.pc = "rec" =>
                /\ t.last.k = "imdb" /\ t.last.id # 0
                /\ t.meta.id = t.last.id
                /\ t.meta.tmdbId = t.tmdbId
                /\ t.meta.type = req[r].type

C17_Step ==
    \A r \in Req : \A i \in Calls(r) :
        (/\ req[r].pc # "idle" /\ Len(req'[r].tasks) = Len(req[r].tasks)
         /\ req'[r].tasks[i].tmdbId # req[r].tasks[i].tmdbId) =>
            /\ req[r].tasks[i].pc \in {"search", "search2"}
            /\ req'[r].tasks[i].pc = "ids"
            /\ req'[r].tasks[i].last.k = "hit"
            /\ req'[r].tasks[i].tmdbId = req'[r].tasks[i].last.id

\* C17: a getTmdbItem call ends in a record or in null, never in an
\* error: null when its last search found no match, when the
\* external-ids call gave no imdb id, and when a provider call raised a
\* fault; a record it returns has the imdb id the external-ids call gave
\* for the first match of the search, and that match's tmdb id.
C17_NeverFails == []C17_State /\ [][C17_Step]_vars

\* of three candidates one has resolved, one met a fault and one had a
\* match without an imdb id
C17_Witness ==
    \E r \in Req : \E i, j, k \in Calls(r) :
        /\ req[r].tasks[i].pc = "rec"
        /\ req[r].tasks[j].pc = "null" /\ req[r].tasks[j].last.k = "fault"
        /\ req[r].tasks[k].pc = "null" /\ req[r].tasks[k].last.k = "none"

----------------------------------------------------------------------------
(* C18 *)

\* generation succeeded for r with text that is truthy and does not
\* parse to a non-empty list
Unusable(r) ==
    /\ req[r].gen = "text"
    /\ req[r].text.fenced \/ req[r].text.k # "empty"
    /\ req[r].text.k # "list" \/ req[r].text.v = <<>>

C18_EntriesNonEmpty ==
    \A t \in DOMAIN GLOBAL_USER_CACHES :
        \A k \in DOMAIN GLOBAL_USER_CACHES[t] :
            Len(GLOBAL_USER_CACHES[t][k].items) > 0

\* C18: every entry of every partition holds a non-empty candidate list.
\* A request whose generation succeeded with text that parses to an
\* empty list or to a value that is no list, or that does not parse,
\* stores nothing and returns {metas: []}; the next request for its key,
\* no list having been stored meanwhile, misses and generates again.
C18_EmptyParseNotCached ==
    /\ C18_EntriesNonEmpty
    /\ \A r \in Req :
           Unusable(r) => /\ req[r].pc = "done" /\ req[r].out = "metas"
                          /\ req[r].result = <<>>
                          /\ ~req[r].put /\ ~HoldsEntryOf(r)
                          /\ req[r].tasks = <<>>
    /\ \A r1, r2 \in Req :
           (/\ Unusable(r1) /\ r1 < r2 /\ Looked(r2) /\ SameKey(r1, r2)
            /\ req[r2].prior.puts \subseteq req[r1].prior.puts)
               => ~req[r2].hit /\ Generated(r2)

\* after a request got an empty list, the next one for its key generated
\* again and stored the list it got
C18_Witness ==
    \E r1, r2 \in Req :
        /\ Unusable(r1) /\ req[r1].text.k = "list"
        /\ r1 < r2 /\ SameKey(r1, r2)
        /\ req[r2].put /\ HoldsEntryOf(r2)
        /\ req[r2].pc = "done" /\ Len(req[r2].result) > 0

----------------------------------------------------------------------------
(* C19 *)

RECURSIVE TrimLeft(_)
TrimLeft(s) == IF s # <<>> /\ Head(s) = " " THEN TrimLeft(Tail(s)) ELSE s

RECURSIVE TrimRight(_)
TrimRight(s) ==
    IF s # <<>> /\ s[Len(s)] = " "
    THEN TrimRight(SubSeq(s, 1, Len(s) - 1))
    ELSE s

\* the search string without a trailing '.json'
WithoutSuffix(s) ==
    IF s # <<>> /\ s[Len(s)] = ".json" THEN SubSeq(s, 1, Len(s) - 1) ELSE s

\* the normalized query of the specification: protocol suffix stripped,
\* trimmed, lower-cased
Normalized(s) ==
    LET t == TrimRight(TrimLeft(WithoutSuffix(s)))
    IN [i \in 1..Len(t) |-> IF t[i] = "Film" THEN "film" ELSE t[i]]

\* both requests entered the catalog handler with a search term, for the
\* same tenant and media type, and their search strings differ at most in
\* letter case, outer whitespace and a trailing '.json'
SameButForm(r1, r2) ==
    /\ req[r1].pc # "idle" /\ req[r2].pc # "idle"
    /\ req[r1].out # "nohandler" /\ req[r2].out # "nohandler"
    /\ ~NoTerm(req[r1].extra) /\ ~NoTerm(req[r2].extra)
    /\ req[r1].tmdbKey = req[r2].tmdbKey /\ req[r1].type = req[r2].type
    /\ Normalized(req[r1].extra.search) = Normalized(req[r2].extra.search)

\* C19 (as stated): two requests of one tenant and media type whose
\* queries differ only in letter case, in leading or trailing whitespace
\* or in a trailing '.json' use the same cache key, and the later one,
\* made within TTL of the list the earlier one stored, is a cache hit.
C19_SameKeyButForm ==
    \A r1, r2 \in Req :
        SameButForm(r1, r2) =>
            /\ cacheKey(req[r1].type, req[r1].query) =
                   cacheKey(req[r2].type, req[r2].query)
            /\ (r1 < r2 /\ req[r1].put /\ Looked(r2)) => req[r2].hit

\* the part of C19 that the code does meet: letter case and a trailing
\* '.json' do not change the cache key
C19_CaseAndSuffix ==
    \A r1, r2 \in Req :
        (/\ SameButForm(r1, r2)
         /\ \A i \in {r1, r2} : " " \notin
                {req[i].extra.search[j] : j \in DOMAIN req[i].extra.search}) =>
            /\ req[r1].query = req[r2].query
            /\ (r1 < r2 /\ req[r1].put /\ Looked(r2)) => req[r2].hit

----------------------------------------------------------------------------
(* C20 *)

\* r1 and r2 are requests for the same key that both missed, neither
\* lookup coming after the other request had stored its list
MissedTogether(r1, r2) ==
    /\ r1 # r2 /\ SameKey(r1, r2)
    /\ Looked(r1) /\ Looked(r2)
    /\ ~req[r1].hit /\ ~req[r2].hit
    /\ r1 \notin req[r2].prior.puts /\ r2 \notin req[r1].prior.puts

\* the entry stored under the key of r
EntryOf(caches, r) ==
    caches[req[r].tmdbKey][cacheKey(req[r].type, req[r].query)]

C20_State ==
    \A r1, r2 \in Req :
        MissedTogether(r1, r2) =>
            \A r \in {r1, r2} :
                /\ Generated(r)
                /\ (req[r].gen = "text" /\ req[r].text.v # <<>>) =>
                       /\ req[r].put /\ req[r].src = r
                       /\ req[r].cachedList = req[r].text.v

C20_Step ==
    \A r \in Req :
        (~req[r].put /\ req'[r].put) =>
            /\ EntryOf(GLOBAL_USER_CACHES', r).pid = r
            /\ EntryOf(GLOBAL_USER_CACHES', r).items = req'[r].text.v
            /\ EntryOf(GLOBAL_USER_CACHES', r).timestamp = now

\* C20: two requests for one key that both miss before either has stored
\* a list each run their own generation, and each one whose generation
\* yields a list paginates over that list and writes it to the cache:
\* every write replaces whatever entry the key had, so that the entry
\* holds the items and the time of the write made last.
C20_NoSingleFlight == []C20_State /\ [][C20_Step]_vars

\* both requests have generated, stored and completed; the entry is the
\* one the second wrote over the first one's, and the first paginated
\* over a list that is no longer the cached one
C20_Witness ==
    \E r1, r2 \in Req :
        /\ MissedTogether(r1, r2)
        /\ req[r1].pc = "done" /\ req[r2].pc = "done"
        /\ req[r1].put /\ req[r2].put
        /\ req[r1].putAt < req[r2].putAt
        /\ EntryOf(GLOBAL_USER_CACHES, r2).pid = r2
        /\ EntryOf(GLOBAL_USER_CACHES, r2).timestamp = req[r2].putAt
        /\ req[r1].cachedList # EntryOf(GLOBAL_USER_CACHES, r2).items

----------------------------------------------------------------------------
(* C21 *)

\* no entry
NoEntry == [timestamp |-> -1, items |-> <<>>, pid |-> 0]

\* the entry of partition t under key k, NoEntry when there is none
EntryAt(caches, t, k) ==
    IF t \in DOMAIN caches /\ k \in DOMAIN caches[t]
    THEN caches[t][k] ELSE NoEntry

\* the partitions and the cache keys that occur
Partitions == DOMAIN GLOBAL_USER_CACHES \cup DOMAIN GLOBAL_USER_CACHES'

KeysOf(t) ==
    DOMAIN Entries(GLOBAL_USER_CACHES, t)
        \cup DOMAIN Entries(GLOBAL_USER_CACHES', t)

\* the step is a step of the catalog request r
StepOf(r) == req'[r] # req[r]

C21_Writes ==
    \A t \in Partitions : \A k \in KeysOf(t) :
        EntryAt(GLOBAL_USER_CACHES', t, k) # EntryAt(GLOBAL_USER_CACHES, t, k)
            => \E r \in Req :
                   /\ StepOf(r)
                   /\ req'[r].tmdbKey = t
                   /\ cacheKey(req'[r].type, req'[r].query) = k

C21_Partitions ==
    \A t \in DOMAIN GLOBAL_USER_CACHES :
        /\ t \in DOMAIN GLOBAL_USER_CACHES'
        /\ \A r \in Req :
             (StepOf(r) /\ req'[r].tmdbKey # t) =>
                 GLOBAL_USER_CACHES'[t] = GLOBAL_USER_CACHES[t]

C21_Reads ==
    \A r \in Req :
        (~Looked(r) /\ Looked(r)') =>
            LET e == EntryAt(GLOBAL_USER_CACHES, req'[r].tmdbKey,
                             cacheKey(req'[r].type, req'[r].query))
            IN /\ req'[r].look.found <=> e # NoEntry
               /\ req'[r].look.found =>
                    /\ req'[r].look.items = e.items
                    /\ req'[r].look.ts = e.timestamp

\* C21: a step of a catalog request changes, creates or removes no entry
\* but that of its own tenant's partition under its own cache key, leaves
\* every partition of another tenant as it was, and reads nothing but
\* the entry of its own partition under its own key, however the
\* requests of different tenants interleave.
C21_TenantIsolation ==
    [][C21_Writes /\ C21_Partitions /\ C21_Reads]_vars

\* tenant B's request, made when tenant A's entry for the same query was
\* older than TTL, has missed in its own partition and stored its list
\* there; tenant A's entry is still as it was stored
C21_Witness ==
    \E r1, r2 \in Req :
        /\ req[r1].tmdbKey = "A" /\ req[r2].tmdbKey = "B"
        /\ req[r1].query = req[r2].query
        /\ req[r1].put /\ req[r2].put /\ ~req[r2].look.found
        /\ req[r2].look.at >= req[r1].putAt + CACHE_TTL
        /\ EntryOf(GLOBAL_USER_CACHES, r1).pid = r1
        /\ EntryOf(GLOBAL_USER_CACHES, r1).timestamp = req[r1].putAt
        /\ EntryOf(GLOBAL_USER_CACHES, r2).pid = r2

----------------------------------------------------------------------------
(* C22 *)

\* the getTmdbItem calls of r that have returned
HaveReturned(r) == {req[r].settled[n] : n \in 1..Len(req[r].settled)}

C22_State ==
    \A r \in Req :
        /\ req[r].pc = "resolve" =>
             /\ req[r].out = "none" /\ req[r].result = <<>>
             /\ Len(req[r].tasks) = Len(req[r].pageItems)
             /\ \A i \in 1..Len(req[r].tasks) : req[r].tasks[i].searches >= 1
             /\ \E i \in 1..Len(req[r].tasks) : ~Settled(req[r].tasks[i])
        /\ (req[r].out = "metas" /\ req[r].tasks # <<>>) =>
             /\ HaveReturned(r) = 1..Len(req[r].tasks)
             /\ \A i \in 1..Len(req[r].tasks) : Settled(req[r].tasks[i])
             /\ \A i \in ResolvedAt(req[r].tasks) :
                  req[r].result[Cardinality({j \in ResolvedAt(req[r].tasks) :
                                                 j <= i})]
                      = req[r].tasks[i].meta

C22_Step ==
    \A r \in Req :
        /\ (req[r].tasks = <<>> /\ req'[r].tasks # <<>>) =>
             /\ req'[r].settled = <<>>
             /\ \A i \in 1..Len(req'[r].tasks) :
                  req'[r].tasks[i].pc \in {"search", "rejected"}
        /\ (req[r].out = "none" /\ req'[r].out = "metas"
              /\ req'[r].tasks # <<>>) =>
             /\ req[r].pc = "resolve"
             /\ Len(req'[r].settled) = Len(req[r].settled) + 1

\* C22: the fan-out starts a getTmdbItem call for every candidate of the
\* page in one step, before it awaits any; the calls return in any
\* order; while one is outstanding the handler has returned nothing, its
\* result comes with the return of the last one, and the records in it
\* stand in page order whatever the order in which the calls returned.
C22_JoinAll == []C22_State /\ [][C22_Step]_vars

\* the calls for three candidates returned last to first, the first and
\* the last resolved, and the records are returned first to last
C22_Witness ==
    \E r \in Req :
        /\ req[r].out = "metas" /\ req[r].settled = <<3, 2, 1>>
        /\ ResolvedAt(req[r].tasks) = {1, 3}
        /\ req[r].tasks[1].tmdbId # req[r].tasks[3].tmdbId
        /\ req[r].result = <<req[r].tasks[1].meta, req[r].tasks[3].meta>>

----------------------------------------------------------------------------
(* C23 *)

\* the step is the cache lookup of r, for partition t and key k
LooksUp(r, t, k) ==
    /\ ~Looked(r) /\ Looked(r)'
    /\ req'[r].tmdbKey = t
    /\ cacheKey(req'[r].type, req'[r].query) = k

\* the step is the cache put of r, for partition t and key k
Puts(r, t, k) ==
    /\ ~req[r].put /\ req'[r].put
    /\ req'[r].tmdbKey = t
    /\ cacheKey(req'[r].type, req'[r].query) = k

C23_Step ==
    \A t \in DOMAIN GLOBAL_USER_CACHES :
        \A k \in DOMAIN GLOBAL_USER_CACHES[t] :
            LET e == GLOBAL_USER_CACHES[t][k]
                after == EntryAt(GLOBAL_USER_CACHES', t, k)
            IN /\ after = NoEntry =>
                    /\ now >= e.timestamp + CACHE_TTL
                    /\ \E r \in Req :
                           /\ LooksUp(r, t, k)
                           /\ req'[r].look.found
                           /\ req'[r].look.ts = e.timestamp
                           /\ req'[r].look.at >= e.timestamp + CACHE_TTL
               /\ now < e.timestamp + CACHE_TTL => after # NoEntry
               /\ (after # NoEntry /\ after # e) =>
                    \E r \in Req : Puts(r, t, k) /\ after.pid = r

\* C23: an entry leaves the cache only in the lookup of a request of its
\* own tenant and key that finds it aged TTL or more; no step removes an
\* entry younger than TTL; an entry is replaced only by the put of a
\* request for its own tenant and key; the number of entries is never
\* cut down otherwise.
C23_TtlEvictionOnly == [][C23_Step]_vars

\* a request has found the entry of its key aged a whole TTL and removed
\* it, and has not yet stored a new one
C23_Witness ==
    \E r \in Req :
        /\ ReadStale(r) /\ req[r].pc = "gen"
        /\ EntryAt(GLOBAL_USER_CACHES, req[r].tmdbKey,
                   cacheKey(req[r].type, req[r].query)) = NoEntry
        /\ \E q \in req[r].prior.puts : req[q].putAt = req[r].look.ts

----------------------------------------------------------------------------
(* C24 *)

\* FILTERED_OUT -> DONE
PathFiltered(rq) ==
    /\ rq.filtered /\ ~rq.look.done /\ rq.gen = "none" /\ ~rq.put
    /\ rq.tasks = <<>> /\ rq.result = <<>>

\* CACHE_HIT -> PAGINATE -> RESOLVE -> DONE
PathHit(rq) ==
    /\ ~rq.filtered /\ rq.look.done /\ rq.hit /\ rq.gen = "none" /\ ~rq.put
    /\ rq.cachedList = rq.look.items

\* CACHE_MISS -> GENERATE -> NoResult -> DONE empty (no text, or no
\* candidate in the text: C8, C18)
PathNoResult(rq) ==
    /\ ~rq.filtered /\ rq.look.done /\ ~rq.hit /\ ~rq.put
    /\ \/ rq.gen = "null"
       \/ rq.gen = "text" /\ ~IsNonEmptyArray(parseGeminiResponse(rq.text))
    /\ rq.tasks = <<>> /\ rq.result = <<>>

\* CACHE_MISS -> GENERATE -> Success -> PARSE -> CACHE_PUT -> PAGINATE ->
\* RESOLVE -> DONE
PathSuccess(rq) ==
    /\ ~rq.filtered /\ rq.look.done /\ ~rq.hit /\ rq.put
    /\ rq.gen = "text" /\ IsNonEmptyArray(parseGeminiResponse(rq.text))
    /\ rq.cachedList = parseGeminiResponse(rq.text).v

OnPath(rq) ==
    PathFiltered(rq) \/ PathHit(rq) \/ PathNoResult(rq) \/ PathSuccess(rq)

WithinBudget(rq) ==
    /\ Len(rq.attempts) <= Len(MODEL_POOL) * Len(rq.apiKeys)
    /\ Len(rq.tasks) <= PAGE_SIZE

\* C24 (as stated): every catalog request that carries a search term and
\* has completed has followed one of the four paths to DONE, that is, has
\* returned {metas}, after at most |models| x |credentials| generation
\* attempts and at most PAGE_SIZE candidate resolutions.
C24_PathsToDone ==
    \A r \in Req :
        (req[r].pc = "done" /\ req[r].err # "MissingQuery") =>
            /\ OnPath(req[r]) /\ WithinBudget(req[r])
            /\ req[r].out = "metas"

\* what holds of the code: the steps taken are those of one of the four
\* paths and stay within the budget, whether the request then returned or
\* threw out of PAGINATE
C24_PathsButFault ==
    \A r \in Req :
        /\ WithinBudget(req[r])
        /\ (req[r].pc = "done" /\ req[r].err # "MissingQuery") =>
              /\ OnPath(req[r])
              /\ req[r].out = "throw" =>
                    /\ req[r].err = "TypeError"
                    /\ \E i \in 1..Len(req[r].tasks) :
                           req[r].tasks[i].pc = "rejected"

\* what holds of the code: when every provider call returns, a request
\* that has arrived completes
C24_Completes == \A r \in Req : (req[r].pc # "idle") ~> (req[r].pc = "done")

----------------------------------------------------------------------------
(* C25 *)

\* every entry is as the request that stored it created it
C25_State ==
    \A t \in DOMAIN GLOBAL_USER_CACHES :
        \A k \in DOMAIN GLOBAL_USER_CACHES[t] :
            LET e == GLOBAL_USER_CACHES[t][k]
            IN /\ e.pid \in Req /\ req[e.pid].put
               /\ e.timestamp = req[e.pid].putAt
               /\ e.items = req[e.pid].cachedList

\* a request served from the cache was served the list as stored, less
\* than TTL after the entry's creation
C25_Served ==
    \A r \in Req :
        req[r].hit =>
            /\ req[r].look.pid \in Req
            /\ req[r].look.ts = req[req[r].look.pid].putAt
            /\ req[r].look.at < req[req[r].look.pid].putAt + CACHE_TTL
            /\ req[r].cachedList = req[req[r].look.pid].cachedList

C25_Step ==
    /\ \A r \in Req :
           (StepOf(r) /\ req'[r].hit) =>
               GLOBAL_USER_CACHES' = GLOBAL_USER_CACHES
    /\ \A t \in DOMAIN GLOBAL_USER_CACHES :
           \A k \in DOMAIN GLOBAL_USER_CACHES[t] :
               LET e == GLOBAL_USER_CACHES[t][k]
                   after == EntryAt(GLOBAL_USER_CACHES', t, k)
               IN after.pid = e.pid => after = e

\* C25: every step of a request that is served from the cache leaves the
\* whole cache as it was; an entry keeps the items and the timestamp of
\* its put for as long as it stays in the cache, so it is served only to
\* reads less than TTL after its creation, whatever hits it had.
C25_HitLeavesCache == [](C25_State /\ C25_Served) /\ [][C25_Step]_vars

\* an entry that has been served to a later request is TTL old now, still
\* with the items and the timestamp of its creation: it will not be served
C25_Witness ==
    \E r \in Req :
        /\ req[r].hit /\ req[r].pc = "done"
        /\ req[r].look.at > req[r].look.ts
        /\ LET e == EntryAt(GLOBAL_USER_CACHES, req[r].tmdbKey,
                            cacheKey(req[r].type, req[r].query))
           IN /\ e.pid = req[r].look.pid
              /\ e.timestamp = req[r].look.ts
              /\ e.items = req[r].look.items
              /\ now >= e.timestamp + CACHE_TTL
              /\ ~IsFresh(e.timestamp, now)

----------------------------------------------------------------------------
(* C26 *)

\* r has gone past the MissingQuery check of line 259
Admitted(r) == req[r].filtered \/ Looked(r) \/ Generated(r)

\* C26 (as stated): every request that reaches the cache lookup or the
\* suggestion provider carries a non-empty query after suffix stripping,
\* and a request whose search term is empty once the suffix is stripped
\* has been rejected with MissingQuery.
C26_NonEmptyQuery ==
    \A r \in Req :
        /\ (Looked(r) \/ Generated(r)) => req[r].search # <<>>
        /\ (req[r].pc = "done" /\ req[r].extra.hasSearch
              /\ cleanQuery(req[r].extra.search) = <<>>)
             => (req[r].out = "throw" /\ req[r].err = "MissingQuery")

\* what holds of the code: the term as received, before the suffix is
\* stripped, is non-empty for every request past line 259, and a request
\* with no term or an empty one is rejected with MissingQuery
C26_NonEmptyTerm ==
    \A r \in Req :
        /\ Admitted(r) => ~NoSearch(req[r].extra) /\ req[r].extra.search # <<>>
        /\ (req[r].pc = "done" /\ req[r].tmdbKey # ""
              /\ NoSearch(req[r].extra))
             => (req[r].out = "throw" /\ req[r].err = "MissingQuery")

\* what happens to the term '.json': it is looked up under the key of
\* the empty query and a list is generated and stored for it
C26_EmptyQueryServed ==
    \E r \in Req :
        /\ req[r].extra.search = <<".json">>
        /\ req[r].search = <<>> /\ req[r].query = <<>>
        /\ Looked(r) /\ req[r].gen = "text" /\ req[r].put
        /\ cacheKey(req[r].type, <<>>)
              \in DOMAIN Entries(GLOBAL_USER_CACHES, req[r].tmdbKey)

====
